---------------------------- MODULE Spec2Model ----------------------------
(***************************************************************************)
(* Model of src/minesweeper.py: the knowledge engine MinesweeperAI, its    *)
(* Sentence constraints, and the hidden Minesweeper grid that answers      *)
(* nearby_mines.                                                           *)
(*                                                                         *)
(* A cell is a pair <<i, j>>.  A Sentence is a record [cells, count].      *)
(* self.knowledge is a Python list, so it is a sequence of Sentences;      *)
(* every Sentence object sits in the list exactly once (no aliasing), so   *)
(* the sequence of values is the whole of the list's state.                *)
(***************************************************************************)
EXTENDS Integers, Sequences, FiniteSets

\* ------------------------------------------------------------------ bounds
\* Grids of every shape height x width with height * width <= MaxCells.
MaxCells == 6
\* At most MaxMines mines are hidden in the grid.
MaxMines == 2
\* SpecEngine: grids with at most MaxEngineCells cells, and at most MaxCalls
\* calls of the engine.
MaxEngineCells == 3
MaxCalls == 2
\* SpecSquare: the square grid of SquareSide x SquareSide cells.
SquareSide == 3

VARIABLES
    height,       \* MinesweeperAI.height (= Minesweeper.height)
    width,        \* MinesweeperAI.width  (= Minesweeper.width)
    board,        \* Minesweeper.mines: the hidden grid's mines
    moves_made,   \* MinesweeperAI.moves_made
    mines,        \* MinesweeperAI.mines
    safes,        \* MinesweeperAI.safes
    knowledge,    \* MinesweeperAI.knowledge, a list of Sentences
    last,         \* the last call: its name, arguments, result, whether it raised
    truthful,     \* history: every call so far agreed with the hidden grid
    valid,        \* history: every observation so far was a valid one
    calls         \* history: number of calls made (counted in SpecEngine only)

vars == <<height, width, board, moves_made, mines, safes, knowledge,
          last, truthful, valid, calls>>

\* Python's None as a move.
None == <<>>

\* Mutant of Abs: the difference of the counts taken without abs().
AbsDropped(n) == n

Abs(n) == IF n < 0 THEN -n ELSE n
Max(a, b) == IF a > b THEN a ELSE b
Min(a, b) == IF a < b THEN a ELSE b

Range(seq) == {seq[i] : i \in DOMAIN seq}

\* ------------------------------------------------------------ Minesweeper
\* board_cells of a grid h x w (MinesweeperAI.__init__).
board_cells(h, w) == (0 .. h - 1) \X (0 .. w - 1)

\* Minesweeper.nearby_mines on a grid h x w with mines b.
nearby_mines(h, w, b, cell) ==
    Cardinality({c \in (cell[1] - 1 .. cell[1] + 1) \X (cell[2] - 1 .. cell[2] + 1) :
                    /\ c # cell
                    /\ 0 <= c[1] /\ c[1] < h /\ 0 <= c[2] /\ c[2] < w
                    /\ c \in b})

\* --------------------------------------------------------------- Sentence
Sentence(cells, count) == [cells |-> cells, count |-> count]

\* Mutant of known_mines: `>=` for `==` in the test of line 117.
known_mines_ge(s) == IF Cardinality(s.cells) >= s.count THEN s.cells ELSE {}

known_mines(s) == IF Cardinality(s.cells) = s.count THEN s.cells ELSE {}

known_safes(s) == IF s.count = 0 THEN s.cells ELSE {}

SentenceMarkMine(s, cell) ==
    IF cell \in s.cells
    THEN [cells |-> s.cells \ {cell}, count |-> s.count - 1]
    ELSE s

\* Mutant of Sentence.mark_safe: the body of mark_mine, which also decrements.
SentenceMarkSafeDecrements(s, cell) ==
    IF cell \in s.cells
    THEN [cells |-> s.cells \ {cell}, count |-> s.count - 1]
    ELSE s

SentenceMarkSafe(s, cell) ==
    IF cell \in s.cells
    THEN [cells |-> s.cells \ {cell}, count |-> s.count]
    ELSE s

\* ---------------------------------------------------------- MinesweeperAI
\* The engine's fields as one record, so that the methods are functions of it.
AI == [height |-> height, width |-> width, moves_made |-> moves_made,
       mines |-> mines, safes |-> safes, knowledge |-> knowledge]

\* Mutant of mark_mine: no test `cell in self.mines`, and each Sentence
\* decrements its count whether or not it holds the cell.
mark_mine_decrements(ai, cell) ==
    [ai EXCEPT !.mines = @ \cup {cell},
               !.knowledge = [i \in DOMAIN @ |->
                   [cells |-> @[i].cells \ {cell}, count |-> @[i].count - 1]]]

mark_mine(ai, cell) ==
    IF cell \in ai.mines THEN ai
    ELSE [ai EXCEPT !.mines = @ \cup {cell},
                    !.knowledge = [i \in DOMAIN @ |-> SentenceMarkMine(@[i], cell)]]

\* Mutant of mark_safe: `self.safes = {cell}` for `self.safes.add(cell)`.
mark_safe_replaces(ai, cell) ==
    IF cell \in ai.safes THEN ai
    ELSE [ai EXCEPT !.safes = {cell},
                    !.knowledge = [i \in DOMAIN @ |-> SentenceMarkSafe(@[i], cell)]]

mark_safe(ai, cell) ==
    IF cell \in ai.safes THEN ai
    ELSE [ai EXCEPT !.safes = @ \cup {cell},
                    !.knowledge = [i \in DOMAIN @ |-> SentenceMarkSafe(@[i], cell)]]

\* `for cell in cells: self.mark_safe(cell)`, in the set's iteration order.
RECURSIVE MarkSafeAll(_, _)
MarkSafeAll(ai, cells) ==
    IF cells = {} THEN ai
    ELSE LET c == CHOOSE x \in cells : TRUE
         IN  MarkSafeAll(mark_safe(ai, c), cells \ {c})

\* `for mine in self.mines: knowledge.mark_mine(mine)`.
RECURSIVE SentenceMarkMines(_, _)
SentenceMarkMines(s, cells) ==
    IF cells = {} THEN s
    ELSE LET c == CHOOSE x \in cells : TRUE
         IN  SentenceMarkMines(SentenceMarkMine(s, c), cells \ {c})

\* `for safe in self.safes: knowledge.mark_safe(safe)`.
RECURSIVE SentenceMarkSafes(_, _)
SentenceMarkSafes(s, cells) ==
    IF cells = {} THEN s
    ELSE LET c == CHOOSE x \in cells : TRUE
         IN  SentenceMarkSafes(SentenceMarkSafe(s, c), cells \ {c})

normalize_knowledge(ai, s) ==
    SentenceMarkSafes(SentenceMarkMines(s, ai.mines), ai.safes)

\* The in-bounds neighbours of cell, as create_knowledge's two ranges give them.
adjoined_cells(ai, cell) ==
    ((Max(0, cell[1] - 1) .. Min(ai.height, cell[1] + 2) - 1)
       \X (Max(0, cell[2] - 1) .. Min(ai.width, cell[2] + 2) - 1)) \ {cell}

create_knowledge(ai, cell, count) ==
    normalize_knowledge(ai, Sentence(adjoined_cells(ai, cell), count))

\* Mutant of is_subset: `cells1.issubset(cells2)` alone.
is_subset_one_way(cells1, cells2) == cells1 \subseteq cells2

is_subset(cells1, cells2) == cells1 \subseteq cells2 \/ cells2 \subseteq cells1

\* The list synthesise_knowledge returns, built over self.knowledge[i..].
RECURSIVE SynthesiseFrom(_, _, _)
SynthesiseFrom(ai, current_knowledge, i) ==
    IF i > Len(ai.knowledge) THEN <<>>
    ELSE LET k == ai.knowledge[i]
             rest == SynthesiseFrom(ai, current_knowledge, i + 1)
             cells_difference == k.cells \ current_knowledge.cells
         IN  IF k.cells \cap current_knowledge.cells = {} THEN rest
             ELSE IF is_subset(k.cells, current_knowledge.cells) /\ cells_difference # {}
                  THEN <<Sentence(cells_difference,
                                  Abs(current_knowledge.count - k.count))>> \o rest
                  ELSE rest

synthesise_knowledge(ai, current_knowledge) == SynthesiseFrom(ai, current_knowledge, 1)

\* `for knowledge in synthesised: if knowledge not in self.knowledge: append`.
RECURSIVE AppendNew(_, _)
AppendNew(kb, new) ==
    IF new = <<>> THEN kb
    ELSE AppendNew(IF Head(new) \in Range(kb) THEN kb ELSE Append(kb, Head(new)),
                   Tail(new))

\* list.remove(x): drops the first element equal to x.
RECURSIVE ListRemove(_, _)
ListRemove(kb, x) ==
    IF kb = <<>> THEN kb
    ELSE IF Head(kb) = x THEN Tail(kb)
    ELSE <<Head(kb)>> \o ListRemove(Tail(kb), x)

\* The scan of rebuild_all_knowledge from self.knowledge[i] on; removable holds
\* the positions of the Sentences appended to `removable`.
RECURSIVE RebuildScan(_, _, _)
RebuildScan(ai, i, removable) ==
    IF i > Len(ai.knowledge) THEN [ai |-> ai, removable |-> removable]
    ELSE LET k == ai.knowledge[i]
         IN  IF known_mines(k) # {}
             THEN RebuildScan([ai EXCEPT !.mines = @ \cup known_mines(k)],
                              i + 1, Append(removable, i))
             ELSE IF known_safes(k) # {}
             THEN RebuildScan(MarkSafeAll(ai, known_safes(k)),
                              i + 1, Append(removable, i))
             ELSE RebuildScan(ai, i + 1, removable)

\* `for knowledge in removable: self.knowledge.remove(knowledge)`: each removal
\* is by equality with the Sentence as it is after the scan.
RECURSIVE RemoveAll(_, _)
RemoveAll(kb, xs) ==
    IF xs = <<>> THEN kb ELSE RemoveAll(ListRemove(kb, Head(xs)), Tail(xs))

\* Mutant of RebuildPass: changes_made set when the scan found a Sentence to
\* remove.
RebuildPassChanges(ai) ==
    LET scan == RebuildScan(ai, 1, <<>>)
        removed == [n \in 1 .. Len(scan.removable) |->
                       scan.ai.knowledge[scan.removable[n]]]
    IN  [ai |-> [scan.ai EXCEPT !.knowledge = RemoveAll(@, removed)],
         changes_made |-> scan.removable # <<>>]

\* One execution of the body of rebuild_all_knowledge up to line 195: the
\* engine after the scan and the removals, and changes_made as line 196 reads it.
RebuildPass(ai) ==
    LET scan == RebuildScan(ai, 1, <<>>)
        removed == [n \in 1 .. Len(scan.removable) |->
                       scan.ai.knowledge[scan.removable[n]]]
    IN  [ai |-> [scan.ai EXCEPT !.knowledge = RemoveAll(@, removed)],
         changes_made |-> FALSE]     \* set at line 177, never set to True

RECURSIVE rebuild_all_knowledge(_)
rebuild_all_knowledge(ai) ==
    LET pass == RebuildPass(ai)
    IN  IF pass.changes_made THEN rebuild_all_knowledge(pass.ai) ELSE pass.ai

\* The number of scans rebuild_all_knowledge(ai) makes: one for each
\* execution of its body.
RECURSIVE rebuild_scans(_)
rebuild_scans(ai) ==
    LET pass == RebuildPass(ai)
    IN  IF pass.changes_made THEN 1 + rebuild_scans(pass.ai) ELSE 1

\* Mutant of add_knowledge: the else branch of lines 269-271 left out.
add_knowledge_insert_no_else(ai, cell, count) ==
    LET marked == mark_safe([ai EXCEPT !.moves_made = @ \cup {cell}], cell)
        current_knowledge == create_knowledge(marked, cell, count)
    IN  IF current_knowledge.count # 0
        THEN IF current_knowledge \notin Range(marked.knowledge)
             THEN [marked EXCEPT !.knowledge =
                      AppendNew(Append(@, current_knowledge),
                                synthesise_knowledge(marked, current_knowledge))]
             ELSE marked
        ELSE marked

\* Mutant of add_knowledge: the call self.mark_safe(cell) of line 257 left out.
add_knowledge_insert_no_mark(ai, cell, count) ==
    LET marked == [ai EXCEPT !.moves_made = @ \cup {cell}]
        current_knowledge == create_knowledge(marked, cell, count)
    IN  IF current_knowledge.count # 0
        THEN IF current_knowledge \notin Range(marked.knowledge)
             THEN [marked EXCEPT !.knowledge =
                      AppendNew(Append(@, current_knowledge),
                                synthesise_knowledge(marked, current_knowledge))]
             ELSE marked
        ELSE MarkSafeAll(marked, current_knowledge.cells)

\* add_knowledge up to, not including, the final rebuild_all_knowledge().
add_knowledge_insert(ai, cell, count) ==
    LET marked == mark_safe([ai EXCEPT !.moves_made = @ \cup {cell}], cell)
        current_knowledge == create_knowledge(marked, cell, count)
    IN  IF current_knowledge.count # 0
        THEN IF current_knowledge \notin Range(marked.knowledge)
             THEN [marked EXCEPT !.knowledge =
                      AppendNew(Append(@, current_knowledge),
                                synthesise_knowledge(marked, current_knowledge))]
             ELSE marked
        ELSE MarkSafeAll(marked, current_knowledge.cells)

add_knowledge(ai, cell, count) ==
    rebuild_all_knowledge(add_knowledge_insert(ai, cell, count))

\* Mutant of make_safe_move: the test `item not in self.moves_made` left out.
make_safe_move_any(ai) ==
    IF ai.safes = {} THEN {None} ELSE ai.safes

\* The moves make_safe_move may return: the first cell of self.safes, in the
\* set's iteration order, that is not in self.moves_made; None when none is.
make_safe_move(ai) ==
    IF ai.safes \ ai.moves_made = {} THEN {None} ELSE ai.safes \ ai.moves_made

\* flat_map(get_cells, self.knowledge), as the set of its members.
flat_map_cells(kb) == UNION {kb[i].cells : i \in DOMAIN kb}

\* Mutant of sorted_first: `self.knowledge[0]`, the list left unsorted.
sorted_first_unsorted(kb) == kb[1]

\* sorted(self.knowledge, key=attrgetter('count'))[0]: the sort is stable, so it
\* is the first Sentence of the list with the least count.
sorted_first(kb) ==
    LET least == CHOOSE n \in {kb[i].count : i \in DOMAIN kb} :
                     \A i \in DOMAIN kb : n <= kb[i].count
        first == CHOOSE i \in DOMAIN kb :
                     /\ kb[i].count = least
                     /\ \A j \in DOMAIN kb : kb[j].count = least => i <= j
    IN  kb[first]

\* Mutant of make_random_move: the preference of lines 320-328 for a cell
\* that no Sentence mentions left out.
make_random_move_no_preference(ai) ==
    LET free_cells == (board_cells(ai.height, ai.width) \ ai.mines) \ ai.moves_made
        safest_cells == sorted_first(ai.knowledge).cells
    IN  IF free_cells = {} THEN {[result |-> None, raised |-> FALSE]}
        ELSE IF ai.knowledge # <<>>
        THEN IF safest_cells = {} THEN {[result |-> None, raised |-> TRUE]}
             ELSE {[result |-> c, raised |-> FALSE] : c \in safest_cells}
        ELSE {[result |-> c, raised |-> FALSE] : c \in free_cells}

\* The outcomes of make_random_move: [result, raised].  random.randrange(0)
\* raises ValueError.
make_random_move(ai) ==
    LET free_cells == (board_cells(ai.height, ai.width) \ ai.mines) \ ai.moves_made
        dangerous_cells == flat_map_cells(ai.knowledge)
        zero == {c \in free_cells : c \notin ai.moves_made /\ c \notin dangerous_cells}
        safest_cells == sorted_first(ai.knowledge).cells
    IN  IF free_cells = {} THEN {[result |-> None, raised |-> FALSE]}
        ELSE IF ai.knowledge # <<>>
        THEN IF zero # {} THEN {[result |-> c, raised |-> FALSE] : c \in zero}
             ELSE IF safest_cells = {} THEN {[result |-> None, raised |-> TRUE]}
             ELSE {[result |-> c, raised |-> FALSE] : c \in safest_cells}
        ELSE {[result |-> c, raised |-> FALSE] : c \in free_cells}

\* ------------------------------------------------------------------ state
Call(op, cell, count, result, raised) ==
    [op |-> op, cell |-> cell, count |-> count, result |-> result, raised |-> raised]

Shapes(n) == {hw \in (1 .. n) \X (1 .. n) : hw[1] * hw[2] <= n}

InitGrid(n) ==
    /\ \E hw \in Shapes(n) :
          /\ height = hw[1]
          /\ width = hw[2]
    /\ board \in {b \in SUBSET board_cells(height, width) : Cardinality(b) <= MaxMines}
    /\ moves_made = {}
    /\ mines = {}
    /\ safes = {}
    /\ knowledge = <<>>
    /\ last = Call("init", None, 0, None, FALSE)
    /\ truthful = TRUE
    /\ valid = TRUE
    /\ calls = 0

Init == InitGrid(MaxCells)

Install(ai) ==
    /\ moves_made' = ai.moves_made
    /\ mines' = ai.mines
    /\ safes' = ai.safes
    /\ knowledge' = ai.knowledge
    /\ UNCHANGED <<height, width, board>>

\* The game's use of the engine: a revealed cell is no mine and the count is
\* the grid's.
AddKnowledge ==
    \E cell \in board_cells(height, width) \ board :
        LET count == nearby_mines(height, width, board, cell)
        IN  /\ Install(add_knowledge(AI, cell, count))
            /\ last' = Call("add_knowledge", cell, count, None, FALSE)
            /\ UNCHANGED <<truthful, valid, calls>>

MakeSafeMove ==
    \E r \in make_safe_move(AI) :
        /\ last' = Call("make_safe_move", None, 0, r, FALSE)
        /\ UNCHANGED <<height, width, board, moves_made, mines, safes, knowledge,
                       truthful, valid, calls>>

MakeRandomMove ==
    \E o \in make_random_move(AI) :
        /\ last' = Call("make_random_move", None, 0, o.result, o.raised)
        /\ UNCHANGED <<height, width, board, moves_made, mines, safes, knowledge,
                       truthful, valid, calls>>

Next == AddKnowledge \/ MakeSafeMove \/ MakeRandomMove

Spec == Init /\ [][Next]_vars

\* ------------------------------------------- the game on a square board
\* The same play on the square board of side SquareSide with one mine.
InitSquare ==
    /\ InitGrid(SquareSide * SquareSide)
    /\ height = SquareSide
    /\ width = SquareSide
    /\ Cardinality(board) = 1

SpecSquare == InitSquare /\ [][Next]_vars

\* ------------------------------------------------- the engine, called freely
\* An observation that agrees with the hidden grid.
TrueObservation(cell, count) ==
    /\ cell \in board_cells(height, width) \ board
    /\ count = nearby_mines(height, width, board, cell)

\* The invalid observations tried: a cell of the grid with a count one below or
\* one above the range, and a cell just outside the grid, above its first row
\* or right of its last column.
InvalidObservations ==
    {in \in board_cells(height, width) \X (-1 .. 9) :
        in[2] \in {-1, Cardinality(adjoined_cells(AI, in[1])) + 1}}
    \cup ({<<-1, 0>>, <<height - 1, width>>} \X {0, 1})

\* One more call, which agrees with the hidden grid or does not.
Agrees(agrees) ==
    /\ calls < MaxCalls
    /\ calls' = calls + 1
    /\ truthful' = (truthful /\ agrees)

\* add_knowledge with any cell of the grid and any count in range.
Observe ==
    \E cell \in board_cells(height, width) :
        \E count \in 0 .. Cardinality(adjoined_cells(AI, cell)) :
            /\ Agrees(TrueObservation(cell, count))
            /\ UNCHANGED valid
            /\ Install(add_knowledge(AI, cell, count))
            /\ last' = Call("add_knowledge", cell, count, None, FALSE)

\* add_knowledge with an observation that is not valid: the method has no
\* check and no statement of it can raise, so it runs as for any other input.
ObserveInvalid ==
    \E in \in InvalidObservations :
        /\ Agrees(FALSE)
        /\ valid' = FALSE
        /\ Install(add_knowledge(AI, in[1], in[2]))
        /\ last' = Call("add_knowledge", in[1], in[2], None, FALSE)

MarkSafe ==
    \E cell \in board_cells(height, width) :
        /\ Agrees(cell \notin board)
        /\ UNCHANGED valid
        /\ Install(mark_safe(AI, cell))
        /\ last' = Call("mark_safe", cell, 0, None, FALSE)

MarkMine ==
    \E cell \in board_cells(height, width) :
        /\ Agrees(cell \in board)
        /\ UNCHANGED valid
        /\ Install(mark_mine(AI, cell))
        /\ last' = Call("mark_mine", cell, 0, None, FALSE)

InitEngine == InitGrid(MaxEngineCells)

NextEngine == Observe \/ ObserveInvalid \/ MarkSafe \/ MarkMine

SpecEngine == InitEngine /\ [][NextEngine]_vars

\* ----------------------------------------------------------------- claims
\* The new Sentence add_knowledge derives in a step that calls it with
\* last'.cell and last'.count: the engine after lines 256-257, and the
\* normalized Sentence of line 259.
Marked(cell) == mark_safe([AI EXCEPT !.moves_made = @ \cup {cell}], cell)

Derived(cell, count) == create_knowledge(Marked(cell), cell, count)

Candidates == (board_cells(height, width) \ mines) \ moves_made

\* What the spec asks of an observation: the cell is in the grid and the count
\* is between 0 and the number of its in-bounds neighbours.
ValidObservation(ai, cell, count) ==
    /\ cell \in board_cells(ai.height, ai.width)
    /\ 0 <= count
    /\ count <= Cardinality(adjoined_cells(ai, cell))

\* C1: for truthful observations of non-mine cells, every cell of safes is no
\* mine of the hidden grid and every cell of mines is one, in every state.
C1_Soundness ==
    /\ safes \cap board = {}
    /\ mines \subseteq board

C1_Witness ==
    /\ mines # {}
    /\ safes \ moves_made # {}
    /\ knowledge # <<>>

\* C2, as claimed: after any sequence of observe (cell in the grid, count in
\* range), mark_safe and mark_unsafe calls, safes and mines share no cell.
C2_Disjoint == valid => safes \cap mines = {}

\* C2, amended: safes and mines share no cell after any sequence of calls
\* that agree with one hidden grid (observe of a non-mine with its true
\* count, mark_safe of a non-mine, mark_unsafe of a mine).
C2_DisjointWhenTruthful == truthful => safes \cap mines = {}

C2_Witness ==
    /\ truthful
    /\ last.op = "add_knowledge"
    /\ mines # {}
    /\ safes # {}

\* C3: when observe returns, no Sentence of knowledge with a non-empty cell
\* set has count 0 or count = |cells|.
C3_Fixpoint ==
    last.op = "add_knowledge" =>
        \A i \in DOMAIN knowledge :
            knowledge[i].cells # {} =>
                /\ knowledge[i].count # 0
                /\ knowledge[i].count # Cardinality(knowledge[i].cells)

\* C4: when observe returns, no Sentence of knowledge mentions a cell of
\* safes or of mines.
C4_Normalized ==
    last.op = "add_knowledge" =>
        \A i \in DOMAIN knowledge :
            knowledge[i].cells \cap (safes \cup mines) = {}

\* C5: for truthful observations, every Sentence of knowledge has
\* 0 <= count <= |cells|, in every state.
C5_CountBounds ==
    \A i \in DOMAIN knowledge :
        /\ 0 <= knowledge[i].count
        /\ knowledge[i].count <= Cardinality(knowledge[i].cells)

C5_Witness ==
    \E i \in DOMAIN knowledge :
        /\ knowledge[i].count >= 2
        /\ Cardinality(knowledge[i].cells) > knowledge[i].count
        /\ Len(knowledge) >= 3

\* C6: observe with a cell outside the grid, or a count below 0 or above the
\* number of in-bounds neighbours, signals an error and changes none of
\* safes, mines, moves_made and knowledge.
C6_InvalidObservationFailsFast ==
    [][(last'.op = "add_knowledge" /\ ~ValidObservation(AI, last'.cell, last'.count))
          => /\ last'.raised
             /\ UNCHANGED <<safes, mines, moves_made, knowledge>>]_vars

\* C7: guess_move returns None exactly when no cell of the grid is outside
\* mines and moves_made, and otherwise returns, without raising, such a cell.
C7_GuessMoveLegal ==
    last.op = "make_random_move" =>
        /\ ~last.raised
        /\ (last.result = None <=> Candidates = {})
        /\ (last.result # None => last.result \in Candidates)

\* C8: safe_move returns a cell of safes that is not in moves_made when there
\* is one, None exactly when there is none, and changes none of safes, mines,
\* moves_made and knowledge.
C8_SafeMove ==
    [][last'.op = "make_safe_move"
          => /\ (last'.result = None <=> safes \ moves_made = {})
             /\ (last'.result # None => last'.result \in safes \ moves_made)
             /\ ~last'.raised
             /\ UNCHANGED <<safes, mines, moves_made, knowledge>>]_vars

C8_Witness ==
    /\ last.op = "make_safe_move"
    /\ last.result # None
    /\ moves_made # {}
    /\ mines # {}

\* C9: when observe derives a new Sentence C (count not 0, not yet in
\* knowledge) and knowledge holds K with K.cells a non-empty strict subset of
\* C.cells, synthesis yields the Sentence over C.cells - K.cells with count
\* |C.count - K.count|, and after observe it is in knowledge or resolved.
C9_SubsetSynthesis ==
    [][last'.op = "add_knowledge"
          => LET ai == Marked(last'.cell)
                 C == Derived(last'.cell, last'.count)
             IN  (C.count # 0 /\ C \notin Range(ai.knowledge)) =>
                     \A i \in DOMAIN ai.knowledge :
                         LET K == ai.knowledge[i]
                             D == Sentence(C.cells \ K.cells, Abs(C.count - K.count))
                         IN  (K.cells # {} /\ K.cells \subseteq C.cells
                                           /\ K.cells # C.cells)
                                 => /\ D \in Range(synthesise_knowledge(ai, C))
                                    /\ \/ D \in Range(knowledge')
                                       \/ D.cells \subseteq (safes' \cup mines')]_vars

\* C10: when observe's normalized Sentence has count 0, each of its cells
\* (each in-bounds neighbour not already known) is in safes when observe
\* returns, and the Sentence is not inserted: knowledge does not grow and no
\* Sentence of it mentions those cells.
C10_DirectResolution ==
    [][last'.op = "add_knowledge"
          => LET C == Derived(last'.cell, last'.count)
             IN  C.count = 0 =>
                     /\ C.cells \subseteq safes'
                     /\ (adjoined_cells(AI, last'.cell) \ mines) \subseteq safes'
                     /\ Len(knowledge') <= Len(knowledge)
                     /\ \A i \in DOMAIN knowledge' :
                            knowledge'[i].cells \cap C.cells = {}]_vars

\* The spec's scenario at a corner: observe((0,0), 0) on a fresh engine makes
\* the three neighbours safe and leaves knowledge empty.
C10_Witness ==
    /\ last.op = "add_knowledge"
    /\ last.cell = <<0, 0>>
    /\ last.count = 0
    /\ moves_made = {<<0, 0>>}
    /\ safes = {<<0, 0>>, <<0, 1>>, <<1, 0>>, <<1, 1>>}
    /\ knowledge = <<>>

\* C11: across any sequence of calls, safes, mines and moves_made never lose
\* a cell: each set after a call contains the set before it.
C11_Monotone ==
    [][/\ safes \subseteq safes'
       /\ mines \subseteq mines'
       /\ moves_made \subseteq moves_made']_vars

C11_Witness ==
    /\ last.op = "add_knowledge"
    /\ calls = 2
    /\ Cardinality(moves_made) = 2
    /\ mines # {}

\* C12: in every state reached by observe calls, every cell of moves_made is
\* in safes.
C12_MovesAreSafe == moves_made \subseteq safes

C12_Witness ==
    /\ Cardinality(moves_made) >= 3
    /\ mines # {}
    /\ knowledge # <<>>

\* C13: when knowledge is not empty and some candidate (a grid cell neither in
\* mines nor in moves_made) is mentioned by no Sentence, make_random_move
\* returns a candidate that no Sentence mentions.
C13_GuessPrefersUnconstrained ==
    (/\ last.op = "make_random_move"
     /\ knowledge # <<>>
     /\ Candidates \ flat_map_cells(knowledge) # {})
    => (/\ ~last.raised
        /\ last.result \in Candidates \ flat_map_cells(knowledge))

C13_Witness ==
    /\ last.op = "make_random_move"
    /\ knowledge # <<>>
    /\ last.result \in Candidates \ flat_map_cells(knowledge)
    /\ Candidates \cap flat_map_cells(knowledge) # {}

\* C14: when knowledge is not empty and every candidate (there is one) is
\* mentioned by some Sentence, make_random_move returns a cell of a Sentence
\* whose count is the least in knowledge.
C14_GuessFallback ==
    (/\ last.op = "make_random_move"
     /\ knowledge # <<>>
     /\ Candidates # {}
     /\ Candidates \subseteq flat_map_cells(knowledge))
    => (/\ ~last.raised
        /\ \E i \in DOMAIN knowledge :
              /\ \A j \in DOMAIN knowledge : knowledge[i].count <= knowledge[j].count
              /\ last.result \in knowledge[i].cells)

C14_Witness ==
    /\ last.op = "make_random_move"
    /\ Len(knowledge) >= 2
    /\ \E i, j \in DOMAIN knowledge : knowledge[i].count < knowledge[j].count
    /\ Candidates # {}
    /\ Candidates \subseteq flat_map_cells(knowledge)
    /\ ~last.raised
    /\ last.result # None

\* C15: calling add_knowledge(cell, count) again, right after the same call,
\* leaves safes, mines, moves_made and knowledge as the first call left them.
C15_ReobserveIdempotent ==
    [][last'.op = "add_knowledge"
       => add_knowledge(AI', last'.cell, last'.count) = AI']_vars
\* C16: mark_safe(cell) called again right after mark_safe(cell), and
\* mark_mine(cell) right after mark_mine(cell), change nothing: no set grows
\* and no Sentence loses a cell or has its count decremented a second time.
C16_MarkIdempotent ==
    [][/\ last'.op = "mark_safe" => mark_safe(AI', last'.cell) = AI'
       /\ last'.op = "mark_mine" => mark_mine(AI', last'.cell) = AI']_vars

C16_Witness ==
    /\ last.op = "mark_mine"
    /\ calls = 2
    /\ truthful
    /\ last.cell \in mines
    /\ \E i \in DOMAIN knowledge :
          /\ knowledge[i].count = 0
          /\ knowledge[i].cells # {}
          /\ knowledge[i].cells \cap safes = {}
\* The engine as rebuild_all_knowledge finds it in a step that calls
\* add_knowledge with last'.cell and last'.count (line 273).
RebuildStart == add_knowledge_insert(AI, last'.cell, last'.count)

C18_Resolution ==
    [][last'.op = "add_knowledge"
       => \A K \in Range(RebuildStart.knowledge) :
             /\ (K.cells # {} /\ K.count = Cardinality(K.cells))
                    => (K.cells \subseteq mines' /\ K \notin Range(knowledge'))
             /\ (K.cells # {} /\ K.count = 0)
                    => (K.cells \subseteq safes' /\ K \notin Range(knowledge'))]_vars
\* C19: when add_knowledge synthesises against a new Sentence C, it builds,
\* for each Sentence K of knowledge whose cells are a strict superset of C's,
\* the Sentence K.cells \ C.cells with count |C.count - K.count|, and it
\* builds no other Sentence.
C19_SynthesisNewInExisting ==
    [][last'.op = "add_knowledge"
       => LET ai == Marked(last'.cell)
              C == Derived(last'.cell, last'.count)
          IN  (C.count # 0 /\ C \notin Range(ai.knowledge))
              => Range(synthesise_knowledge(ai, C))
                 = {Sentence(K.cells \ C.cells, Abs(C.count - K.count)) :
                       K \in {k \in Range(ai.knowledge) :
                                 C.cells \subseteq k.cells /\ C.cells # k.cells}}]_vars

\* On the 1 x 4 grid with its mine at (0,1), after (0,2) and then (0,0) were
\* observed: {(0,1)} = 1 met {(0,1),(0,3)} = 1, and (0,3) is safe only through
\* the Sentence {(0,3)} = 0 synthesised from them.
C19_Witness ==
    /\ height = 1
    /\ width = 4
    /\ board = {<<0, 1>>}
    /\ last.op = "add_knowledge"
    /\ last.cell = <<0, 0>>
    /\ moves_made = {<<0, 0>>, <<0, 2>>}
    /\ knowledge = <<Sentence({<<0, 1>>}, 1)>>
    /\ <<0, 3>> \in safes

\* C20: in every state reached by add_knowledge calls, no two Sentences of
\* knowledge are equal (same cells, same count), those that became equal when
\* cells were removed included.
C20_NoDuplicates ==
    \A i, j \in DOMAIN knowledge : knowledge[i] = knowledge[j] => i = j
=============================================================================
